---- MODULE Spec2Model ----
(***************************************************************************)
(* Model of github_avatars_gallery_generator/main.py: the paginated        *)
(* contributor fetch (get_all_contributor_avatars_for_repo, retried by     *)
(* tenacity), the per-contributor avatar download (url_to_image, retried   *)
(* by tenacity), the row-major layout cursor of main() and the SVG that    *)
(* main() writes after its loop.                                           *)
(***************************************************************************)
EXTENDS Integers, Sequences, FiniteSets, TLC

(* ---------------------------------------------------------------- bounds *)
\* most pages a modelled remote directory is split into
MaxPages == 2
\* most entries of a modelled multi-page remote directory (all pages together)
MaxTotal == 3
\* most contributors of a modelled single-page directory of distinct users
MaxEntities == 7
\* largest --num-per-row explored (the smallest is 1)
MaxCols == 3
\* most runs of main() in a row, against the same remote directory
MaxRuns == 2
\* most pixels of a modelled avatar image
MaxPixels == 2

(* ------------------------------------------------------ program constants *)
\* stop_after_attempt(3) on get_all_contributor_avatars_for_repo
FetchAttempts == 3
\* stop_after_attempt(3) on url_to_image
ImageAttempts == 3
\* default of --avatar-size
DefaultAvatarSize == 48
\* x, y, ncol, nrow = 2, 2, 1, 1
InitX == 2
InitY == 2
InitCol == 1
InitRow == 1

\* the --avatar-size values explored
TargetSizes == {0, DefaultAvatarSize}
\* the logins of the users of the multi-page directories
Logins == {1, 2}

(* ------------------------------------------------- entries of the listing *)
\* A contributor object of the API: a user carries login, avatar_url and
\* html_url (all identified here by the login number).
User(i) == [kind |-> "user", login |-> i]
\* An anonymous contributor object: it has no login, and as the API serves it
\* no avatar_url and no html_url either.
Anonymous == [kind |-> "anonymous", login |-> 0]
\* What iterating a JSON *object* yields: its keys, bare strings.
Key(k) == [kind |-> k, login |-> 0]
\* response.json() of a non-success answer: the API's error object
\* {"message": ..., "documentation_url": ...}, seen by extend() and by the
\* for loop as the sequence of its keys.
ErrorBody == <<Key("message"), Key("documentation_url")>>

\* contributor["avatar_url"] and contributor["html_url"] evaluate without
\* KeyError/TypeError
HasUrls(e) == e.kind = "user"
HtmlUrl(e) == e.login
AvatarUrl(e) == e.login

(* -------------------------------------------------- bounded input domains *)
SeqsUpTo(S, n) == UNION {[1..k -> S] : k \in 0..n}

RawEntries == {User(i) : i \in Logins} \cup {Anonymous}

\* cut points that split a sequence of length len into n pages
Cuts(len, n) ==
    {c \in [1..(n - 1) -> 0..len] : \A i \in 1..(n - 2) : c[i] <= c[i + 1]}

Bound(c, i, len) == IF i = 0 THEN 0 ELSE IF i > Len(c) THEN len ELSE c[i]

Slice(flat, lo, hi) == [i \in 1..(hi - lo) |-> flat[lo + i]]

Split(flat, c) ==
    [p \in 1..(Len(c) + 1) |->
        Slice(flat, Bound(c, p - 1, Len(flat)), Bound(c, p, Len(flat)))]

\* every directory of at most MaxTotal entries in 1..MaxPages pages
SmallDirs ==
    UNION {{Split(flat, c) : c \in UNION {Cuts(Len(flat), n) : n \in 1..MaxPages}} :
           flat \in SeqsUpTo(RawEntries, MaxTotal)}

\* one page of n distinct users
FlatDirs == {<<[i \in 1..n |-> User(i)]>> : n \in 0..MaxEntities}

Directories == SmallDirs \cup FlatDirs

RECURSIVE Flatten(_)
Flatten(ps) == IF ps = <<>> THEN <<>> ELSE Head(ps) \o Flatten(Tail(ps))

RECURSIVE SumLen(_)
SumLen(ps) == IF ps = <<>> THEN 0 ELSE Len(Head(ps)) + SumLen(Tail(ps))

RECURSIVE SumTo(_, _)
SumTo(f, n) == IF n = 0 THEN 0 ELSE f[n] + SumTo(f, n - 1)

(* ------------------------------------------------------------------ state *)
VARIABLES
    pages,            \* the remote directory: the page bodies, in link order
    avatar_size,      \* args.avatar_size
    num_per_row,      \* args.num_per_row
    pc,               \* "fetch", "returned", "loop", "done" or "aborted"
    error,            \* the exception that ended the run, or "none"
    attempt,          \* tenacity's attempt number of the fetch (0: no call)
    page,             \* the page the next request of the fetch asks for
    all_contributors, \* the list the fetch builds and main() iterates
    x, y, ncol, nrow, \* the layout cursor of main()
    elements,         \* the fragments accumulated by main()
    idx,              \* position of the for loop in all_contributors
    dl_attempt,       \* tenacity's attempt number of url_to_image
    document,         \* what was written to the output file, in order
    page_failures,    \* history of the fetch call: raising requests, per page
    bad_status,       \* history: the fetch consumed a non-success answer
    requests,         \* history: page requests of the current fetch attempt
    placements,       \* history: the cursor read for each fragment
    dl_used,          \* history: attempts the last successful download took
    avatar_img,       \* the RGBA image crop_to_circle works on, pixel by pixel
    alpha_mask,       \* the ellipse mask after its resize to the image's size
    img_before        \* history: avatar_img as crop_to_circle received it

vars == <<pages, avatar_size, num_per_row, pc, error, attempt, page,
          all_contributors, x, y, ncol, nrow, elements, idx, dl_attempt,
          document, page_failures, bad_status, requests, placements,
          dl_used, avatar_img, alpha_mask, img_before>>

config == <<pages, avatar_size, num_per_row>>
cursor == <<x, y, ncol, nrow>>
fetcher == <<attempt, page, all_contributors, page_failures, bad_status, requests>>
loop == <<elements, idx, dl_attempt, placements, dl_used>>
image == <<avatar_img, alpha_mask, img_before>>

Init ==
    /\ pages \in Directories
    /\ avatar_size \in TargetSizes
    /\ num_per_row \in 1..MaxCols
    /\ pc = "fetch"
    /\ error = "none"
    /\ attempt = 1
    /\ page = 1
    /\ all_contributors = <<>>
    /\ x = InitX /\ y = InitY /\ ncol = InitCol /\ nrow = InitRow
    /\ elements = <<>>
    /\ idx = 1
    /\ dl_attempt = 1
    /\ document = <<>>
    /\ page_failures = [p \in 1..Len(pages) |-> 0]
    /\ bad_status = FALSE
    /\ requests = 0
    /\ placements = <<>>
    /\ dl_used = 0
    /\ avatar_img = <<>> /\ alpha_mask = <<>> /\ img_before = <<>>

(* ------------------------------------------------- the Directory Fetcher *)
\* "next" in response.links.keys(): the remote links page p to page p + 1
HasNextLink(p) == p < Len(pages)

\* all_contributors = response.json()  for the first request,
\* all_contributors.extend(response.json())  for the following ones
Accumulate_overwrite(p, acc, body) == body
\* a variant with one list shared by all attempts of the call, which the first
\* request extends too: what the failed attempts read (the pages before each
\* page that raised) is still in it
RECURSIVE ReadBeforeFailures(_)
ReadBeforeFailures(q) ==
    IF q = 0 THEN <<>>
    ELSE ReadBeforeFailures(q - 1)
         \o (IF page_failures[q] > 0 THEN Flatten(SubSeq(pages, 1, q - 1)) ELSE <<>>)
Accumulate_shared(p, acc, body) ==
    IF p = 1 THEN ReadBeforeFailures(Len(pages)) \o body ELSE acc \o body
Accumulate(p, acc, body) == IF p = 1 THEN body ELSE acc \o body

\* stop=stop_after_attempt(3) of the fetch
FetchStop_early(a) == a >= FetchAttempts - 1
FetchStop(a) == a >= FetchAttempts

\* A page request answered with success: its body joins the listing, then
\* the loop follows the next link or the function returns.
RequestOk ==
    /\ pc = "fetch"
    /\ all_contributors' = Accumulate(page, all_contributors, pages[page])
    /\ requests' = requests + 1
    /\ IF HasNextLink(page)
         THEN page' = page + 1 /\ pc' = pc
         ELSE page' = page /\ pc' = "returned"
    /\ UNCHANGED <<config, image, cursor, loop, error, attempt, document,
                   page_failures, bad_status>>

\* A page request that raises (connection error, or a body json() cannot
\* parse): tenacity runs the whole function again from its first line, or
\* raises RetryError out of main() once the attempts are used up.
RequestRaise ==
    /\ pc = "fetch"
    /\ page_failures' = [page_failures EXCEPT ![page] = @ + 1]
    /\ IF FetchStop(attempt)
         THEN /\ pc' = "aborted"
              /\ error' = "RemoteUnavailable"
              /\ requests' = requests + 1
              /\ UNCHANGED <<attempt, page, all_contributors>>
         ELSE /\ attempt' = attempt + 1
              /\ page' = 1
              /\ all_contributors' = <<>>
              /\ requests' = 0
              /\ UNCHANGED <<pc, error>>
    /\ UNCHANGED <<config, image, cursor, loop, document, bad_status>>

\* A page request answered with a non-success status and the API's JSON error
\* object: nothing checks the status, json() yields the object, the answer
\* carries no next link, and the function returns.
RequestBadStatus ==
    /\ pc = "fetch"
    /\ all_contributors' = Accumulate(page, all_contributors, ErrorBody)
    /\ requests' = requests + 1
    /\ bad_status' = TRUE
    /\ pc' = "returned"
    /\ UNCHANGED <<config, image, cursor, loop, error, attempt, page, document,
                   page_failures>>

\* all_contributors = get_all_contributor_avatars_for_repo(...): the call
\* has returned, its frame and its retry state are gone, the for loop begins.
StartLoop ==
    /\ pc = "returned"
    /\ pc' = "loop"
    /\ attempt' = 0
    /\ page' = 0
    /\ requests' = 0
    /\ page_failures' = [p \in 1..Len(pages) |-> 0]
    /\ UNCHANGED <<config, image, cursor, loop, error, all_contributors, document,
                   bad_status>>

(* ----------------------------------------------------- the Layout Engine *)
\* if ncol >= args.num_per_row: next row  else: next column
NextCursor_gt(c, size, cols) ==
    IF c.ncol > cols
      THEN [x |-> InitX, y |-> c.y + size + 2, ncol |-> 1, nrow |-> c.nrow + 1]
      ELSE [x |-> c.x + size + 2, y |-> c.y, ncol |-> c.ncol + 1, nrow |-> c.nrow]
NextCursor_nogap(c, size, cols) ==
    IF c.ncol >= cols
      THEN [x |-> InitX, y |-> c.y + size, ncol |-> 1, nrow |-> c.nrow + 1]
      ELSE [x |-> c.x + size, y |-> c.y, ncol |-> c.ncol + 1, nrow |-> c.nrow]
NextCursor(c, size, cols) ==
    IF c.ncol >= cols
      THEN [x |-> InitX, y |-> c.y + size + 2, ncol |-> 1, nrow |-> c.nrow + 1]
      ELSE [x |-> c.x + size + 2, y |-> c.y, ncol |-> c.ncol + 1, nrow |-> c.nrow]

\* _width = 2 + (args.avatar_size + 2) * args.num_per_row
ImageWidth_noborder(size, cols) == (size + 2) * cols
ImageWidth_nogap(size, cols) == 2 + size * cols + 2
ImageWidth(size, cols) == 2 + (size + 2) * cols

\* _height = 2 + (2 + args.avatar_size) * nrow
ImageHeight_rowsbefore(size, rows) == 2 + (2 + size) * (rows - 1)
ImageHeight(size, rows) == 2 + (2 + size) * rows

(* -------------------------------------------------- the Document Composer *)
\* ELEMENT_TEMPLATE.format(html_url=..., x=x, y=y, avatar_size=..., avatar_data=...)
\* avatar_data stands for the encoded image of the avatar that was downloaded
\* from the entry's avatar_url.
Fragment(e, cx, cy, size) ==
    [html_url |-> HtmlUrl(e), x |-> cx, y |-> cy, avatar_size |-> size,
     avatar_data |-> AvatarUrl(e)]

\* elements += ...
AddElement_front(els, f) == <<f>> \o els
AddElement(els, f) == Append(els, f)

\* SVG_TEMPLATE.format(elements=elements, image_width=_width, image_height=_height)
Svg(els, w, h) == [image_width |-> w, image_height |-> h, elements |-> els]

(* ---------------------------------------------------- the loop of main() *)
\* stop=stop_after_attempt(3) of url_to_image
ImageStop_early(a) == a >= ImageAttempts - 1
ImageStop(a) == a >= ImageAttempts

InLoop == pc = "loop" /\ idx <= Len(all_contributors)

\* contributor["avatar_url"] raises: the entry is a bare string (TypeError)
\* or an object without that key (KeyError); the exception leaves main().
EntryError ==
    /\ InLoop
    /\ ~HasUrls(all_contributors[idx])
    /\ pc' = "aborted"
    /\ error' = "EntryError"
    /\ UNCHANGED <<config, image, cursor, fetcher, loop, document>>

\* a variant that gives up on the entity and goes on with the next one
DownloadFail_skip ==
    /\ InLoop
    /\ HasUrls(all_contributors[idx])
    /\ IF ImageStop(dl_attempt)
         THEN idx' = idx + 1 /\ dl_attempt' = 1
         ELSE dl_attempt' = dl_attempt + 1 /\ UNCHANGED idx
    /\ UNCHANGED <<config, image, cursor, fetcher, document, elements, pc, error,
                   placements, dl_used>>

\* a variant whose retry starts counting again instead of giving up
DownloadFail_forever ==
    /\ InLoop
    /\ HasUrls(all_contributors[idx])
    /\ dl_attempt' = IF ImageStop(dl_attempt) THEN 1 ELSE dl_attempt + 1
    /\ UNCHANGED <<config, image, cursor, fetcher, document, elements, idx,
                   pc, error, placements, dl_used>>

\* One attempt of url_to_image fails (requests.get raises, or
\* raise_for_status() raises): tenacity tries again, or raises RetryError
\* out of main() once the attempts are used up.
DownloadFail ==
    /\ InLoop
    /\ HasUrls(all_contributors[idx])
    /\ IF ImageStop(dl_attempt)
         THEN pc' = "aborted" /\ error' = "AssetUnavailable" /\ UNCHANGED dl_attempt
         ELSE dl_attempt' = dl_attempt + 1 /\ UNCHANGED <<pc, error>>
    /\ UNCHANGED <<config, image, cursor, fetcher, document, elements, idx,
                   placements, dl_used>>

\* The download succeeds but Image.open(...).convert("RGBA") raises.
DecodeFail ==
    /\ InLoop
    /\ HasUrls(all_contributors[idx])
    /\ pc' = "aborted"
    /\ error' = "DecodeError"
    /\ dl_used' = dl_attempt
    /\ UNCHANGED <<config, image, cursor, fetcher, document, elements, idx,
                   dl_attempt, placements>>

\* The rest of one iteration: the download succeeds on this attempt, the
\* image is decoded, cropped and encoded, the fragment is appended with the
\* cursor as it stands, and then the cursor moves.
IterationOk ==
    /\ InLoop
    /\ HasUrls(all_contributors[idx])
    /\ elements' = AddElement(elements,
                      Fragment(all_contributors[idx], x, y, avatar_size))
    /\ placements' = Append(placements,
                      [x |-> x, y |-> y, ncol |-> ncol, nrow |-> nrow])
    /\ LET n == NextCursor([x |-> x, y |-> y, ncol |-> ncol, nrow |-> nrow],
                           avatar_size, num_per_row)
       IN  x' = n.x /\ y' = n.y /\ ncol' = n.ncol /\ nrow' = n.nrow
    /\ dl_used' = dl_attempt
    /\ dl_attempt' = 1
    /\ idx' = idx + 1
    /\ UNCHANGED <<config, image, fetcher, pc, error, document>>

\* After the loop: the size is computed and the file is opened and written.
Finalize ==
    /\ pc = "loop"
    /\ idx > Len(all_contributors)
    /\ document' = Append(document,
                     Svg(elements, ImageWidth(avatar_size, num_per_row),
                         ImageHeight(avatar_size, nrow)))
    /\ pc' = "done"
    /\ UNCHANGED <<config, image, cursor, fetcher, loop, error>>

Next ==
    \/ RequestOk
    \/ RequestRaise
    \/ RequestBadStatus
    \/ StartLoop
    \/ EntryError
    \/ DownloadFail
    \/ DecodeFail
    \/ IterationOk
    \/ Finalize

Spec == Init /\ [][Next]_vars

\* The run is one sequential thread: as long as a step is possible (a request
\* returns or fails, the loop goes on, the file is written) one is taken.
SpecFair == Spec /\ WF_vars(Next)

(* ------------------------------------------------------- running it again *)
\* x, y, ncol, nrow = 2, 2, 1, 1: the cursor is a set of locals of main(),
\* bound anew by every call, whatever the previous call left.
FreshCursor_kept(c) == c
FreshCursor(c) == [x |-> InitX, y |-> InitY, ncol |-> InitCol, nrow |-> InitRow]

\* main() is run once more after a completed run, with the same arguments and
\* against the same remote directory: its locals are bound anew (lines 151
\* and 154) and the fetch is called afresh. The file of the previous run stays.
Rerun ==
    /\ pc = "done"
    /\ Len(document) < MaxRuns
    /\ pc' = "fetch"
    /\ LET c == FreshCursor([x |-> x, y |-> y, ncol |-> ncol, nrow |-> nrow])
       IN  x' = c.x /\ y' = c.y /\ ncol' = c.ncol /\ nrow' = c.nrow
    /\ elements' = <<>>
    /\ idx' = 1
    /\ dl_attempt' = 1
    /\ attempt' = 1
    /\ page' = 1
    /\ all_contributors' = <<>>
    /\ page_failures' = [p \in 1..Len(pages) |-> 0]
    /\ bad_status' = FALSE
    /\ requests' = 0
    /\ placements' = <<>>
    /\ dl_used' = 0
    /\ UNCHANGED <<config, image, error, document>>

NextTwice == Next \/ Rerun

SpecTwice == Init /\ [][NextTwice]_vars

(* ------------------------------------------------- the Avatar Transformer *)
\* The pixel contents of the avatars play no part in the run modelled above,
\* where avatar_data stands for the encoded image. crop_to_circle is modelled
\* on its own, on images of a few pixels.

\* the values of an 8-bit band that are explored
AlphaLevels == {0, 128, 255}
\* an RGBA pixel: its colour channels taken together, and its alpha
Pixels == [rgb : {10, 200}, a : AlphaLevels]
Images == UNION {[1..n -> Pixels] : n \in 1..MaxPixels}
\* mask.resize(im.size, Image.ANTIALIAS): the library's downsampled ellipse,
\* one value per pixel of the image
MasksFor(im) == [DOMAIN im -> AlphaLevels]

\* ImageChops.darker: the smaller of the two values, pixel by pixel
Darker_lighter(a, b) == IF a > b THEN a ELSE b
Darker(a, b) == IF a < b THEN a ELSE b

\* im.split()[-1]: the last band of an RGBA image, its alpha
AlphaBand(im) == [p \in DOMAIN im |-> im[p].a]

\* im.putalpha(band): the alpha is replaced, the colour channels stay
PutAlpha(im, band) == [p \in DOMAIN im |-> [im[p] EXCEPT !.a = band[p]]]

\* mask = ImageChops.darker(mask, im.split()[-1]); im.putalpha(mask)
CropToCircle(im, m) ==
    PutAlpha(im, [p \in DOMAIN im |-> Darker(m[p], AlphaBand(im)[p])])

\* crop_to_circle is about to be called on a decoded RGBA image
InitCrop ==
    /\ avatar_img \in Images
    /\ alpha_mask \in MasksFor(avatar_img)
    /\ img_before = avatar_img
    /\ pages = <<<<User(1)>>>>
    /\ avatar_size = DefaultAvatarSize
    /\ num_per_row = 1
    /\ pc = "crop"
    /\ error = "none"
    /\ attempt = 0
    /\ page = 0
    /\ all_contributors = <<User(1)>>
    /\ x = InitX /\ y = InitY /\ ncol = InitCol /\ nrow = InitRow
    /\ elements = <<>>
    /\ idx = 1
    /\ dl_attempt = 1
    /\ document = <<>>
    /\ page_failures = <<0>>
    /\ bad_status = FALSE
    /\ requests = 0
    /\ placements = <<>>
    /\ dl_used = 0

\* crop_to_circle(avatar_img), in place
Crop ==
    /\ pc = "crop"
    /\ avatar_img' = CropToCircle(avatar_img, alpha_mask)
    /\ pc' = "cropped"
    /\ UNCHANGED <<config, cursor, fetcher, loop, error, document,
                   alpha_mask, img_before>>

NextCrop == Crop

SpecCrop == InitCrop /\ [][NextCrop]_vars

(* ------------------------------------------------------------ properties *)
\* the fetch has returned a listing to main()
FetchReturned ==
    \/ pc \in {"returned", "loop", "done"}
    \/ pc = "aborted" /\ error # "RemoteUnavailable"

\* raising requests of the fetch call, all pages together
TotalFailures == SumTo(page_failures, Len(pages))

\* the cell of the k-th entity processed, k counted from 0
Cell(k) ==
    [x    |-> 2 + (k % num_per_row) * (avatar_size + 2),
     y    |-> 2 + (k \div num_per_row) * (avatar_size + 2),
     ncol |-> (k % num_per_row) + 1,
     nrow |-> (k \div num_per_row) + 1]

\* C1: the k-th entity processed (k = 0..n-1) is placed at column
\* (k mod num_per_row) + 1, row (k div num_per_row) + 1,
\* x = 2 + (k mod num_per_row) * (avatar_size + 2) and
\* y = 2 + (k div num_per_row) * (avatar_size + 2), and its fragment carries
\* that x and y.
C1_Layout ==
    /\ Len(placements) = Len(elements)
    /\ \A k \in 1..Len(placements) :
          /\ placements[k] = Cell(k - 1)
          /\ elements[k].x = Cell(k - 1).x
          /\ elements[k].y = Cell(k - 1).y

\* C1 witness: 7 entities, 3 per row, size 48, with the sequences of the spec.
C1_Witness ==
    /\ num_per_row = 3 /\ avatar_size = 48 /\ Len(placements) = 7
    /\ [k \in 1..7 |-> placements[k].ncol] = <<1, 2, 3, 1, 2, 3, 1>>
    /\ [k \in 1..7 |-> placements[k].nrow] = <<1, 1, 1, 2, 2, 2, 3>>
    /\ [k \in 1..7 |-> elements[k].x] = <<2, 52, 102, 2, 52, 102, 2>>
    /\ [k \in 1..7 |-> elements[k].y] = <<2, 2, 2, 52, 52, 52, 102>>

\* C2: the height written into the document is 2 + (avatar_size + 2) * nrow,
\* nrow being the row counter after the last placement's update, which for n
\* placed entities is (n div num_per_row) + 1.
C2_Height ==
    pc = "done" =>
        /\ document[1].image_height = 2 + (avatar_size + 2) * nrow
        /\ nrow = (Len(placements) \div num_per_row) + 1

\* C2 witness: 7 entities, 3 per row, size 48: final row 3, height 152.
C2_Witness ==
    /\ pc = "done" /\ num_per_row = 3 /\ avatar_size = 48
    /\ Len(placements) = 7 /\ nrow = 3
    /\ document[1].image_height = 152

\* C3 as stated: every page request has its own budget of 3 attempts, so the
\* fetch fails only once some single page request has failed 3 times.
C3_PerPageBudget ==
    error = "RemoteUnavailable" =>
        \E p \in 1..Len(pages) : page_failures[p] >= FetchAttempts

\* C3 amended: the fetch call as a whole has one budget of 3 attempts shared by
\* all its page requests. A raising page request ends the attempt, the next
\* attempt starts over from the first page with an empty listing, and the fetch
\* fails exactly when 3 requests have raised, on whichever pages.
C3_SharedBudget ==
    /\ TotalFailures <= FetchAttempts
    /\ error = "RemoteUnavailable" <=> TotalFailures = FetchAttempts
    /\ pc \in {"fetch", "returned"} =>
          /\ attempt = TotalFailures + 1
          /\ attempt <= FetchAttempts
    /\ pc = "fetch" =>
          /\ page \in 1..Len(pages)
          /\ requests = page - 1
          /\ all_contributors = Flatten(SubSeq(pages, 1, page - 1))

\* C3 witness: the fetch has failed although no page failed 3 times.
C3_Witness ==
    /\ error = "RemoteUnavailable"
    /\ \A p \in 1..Len(pages) : page_failures[p] < FetchAttempts

\* C4: when every page is served successfully, the returned listing is the
\* concatenation of the pages in request order, one request was made per page,
\* and the listing is as long as the pages together.
C4_Concat ==
    (pc = "returned" /\ ~bad_status /\ TotalFailures = 0) =>
        /\ all_contributors = Flatten(pages)
        /\ Len(all_contributors) = SumLen(pages)
        /\ requests = Len(pages)

\* C4 witness: two different non-empty pages were fetched without a failure.
C4_Witness ==
    /\ pc = "returned" /\ ~bad_status /\ TotalFailures = 0
    /\ Len(pages) = 2 /\ pages[1] # <<>> /\ pages[2] # <<>>
    /\ pages[1] # pages[2]
    /\ Len(all_contributors) = 3

\* C5 as stated: a page request answered with a non-success status makes the
\* fetch fail; the answer never becomes entries of the listing and the fetch
\* never returns normally.
C5_NonSuccessFails ==
    bad_status =>
        /\ ~FetchReturned
        /\ \A i \in 1..Len(all_contributors) :
              all_contributors[i].kind \in {"user", "anonymous"}

\* C6: one avatar download is attempted at most 3 times; the download
\* surfaces an error only after its 3rd attempt failed, and a success on any
\* attempt up to the 3rd yields the fragment with no error.
C6_DownloadRetry ==
    /\ dl_attempt \in 1..ImageAttempts
    /\ dl_used \in 0..ImageAttempts
    /\ error = "AssetUnavailable" =>
          /\ pc = "aborted"
          /\ dl_attempt = ImageAttempts
          /\ Len(elements) = idx - 1
    /\ (pc \in {"loop", "done"}) => (error = "none" /\ Len(elements) = idx - 1)

\* C6 witness: a download succeeded on its 3rd attempt and its entity was
\* placed with no error.
C6_Witness ==
    /\ dl_used = ImageAttempts /\ dl_attempt = 1
    /\ pc = "loop" /\ error = "none" /\ Len(elements) >= 1

\* C7 as stated: when the listing cannot be obtained (the fetch raised after
\* its attempts, or a page was answered with a non-success status) nothing is
\* written and no entity is transformed or placed.
C7_NothingOnFailure ==
    (error = "RemoteUnavailable" \/ bad_status) =>
        /\ document = <<>>
        /\ elements = <<>>
        /\ placements = <<>>

\* The part of C7 the code does keep: when the fetch raises out of main()
\* after its attempts, nothing was transformed, placed or written.
RetryErrorWritesNothing ==
    error = "RemoteUnavailable" =>
        /\ pc = "aborted"
        /\ document = <<>> /\ elements = <<>> /\ placements = <<>>
        /\ idx = 1

\* C8 as stated: the listing returned by the fetch has no entry without an
\* identifier and no two entries with the same identifier.
C8_NoAnonymousNoDuplicates ==
    (pc = "returned" /\ ~bad_status) =>
        /\ \A i \in 1..Len(all_contributors) : all_contributors[i].login # 0
        /\ \A i, j \in 1..Len(all_contributors) :
              i # j => all_contributors[i].login # all_contributors[j].login

\* C9: an empty listing produces a document: no error, the write is the step
\* the loop state enables, and the document has no fragment, width
\* 2 + (avatar_size + 2) * num_per_row and height 2 + (avatar_size + 2) * 1.
C9_ZeroEntities ==
    (FetchReturned /\ all_contributors = <<>>) =>
        /\ error = "none" /\ pc # "aborted"
        /\ elements = <<>>
        /\ pc = "loop" => ENABLED Finalize
        /\ pc = "done" =>
              document = <<[image_width  |-> 2 + (avatar_size + 2) * num_per_row,
                            image_height |-> 2 + (avatar_size + 2) * 1,
                            elements     |-> <<>>]>>

\* C9 witness: a run over an empty listing has written its document.
C9_Witness ==
    /\ pc = "done" /\ all_contributors = <<>> /\ Len(document) = 1
    /\ avatar_size = DefaultAvatarSize

\* C10: in a completed run the document has one fragment per entity of the
\* listing, in the listing's order; the i-th carries the i-th entity's profile
\* locator and the cursor read for it before the cursor moved.
C10_FragmentPerEntity ==
    pc = "done" =>
        /\ Len(document) = 1
        /\ Len(document[1].elements) = Len(all_contributors)
        /\ Len(placements) = Len(all_contributors)
        /\ \A i \in 1..Len(all_contributors) :
              /\ document[1].elements[i].html_url = HtmlUrl(all_contributors[i])
              /\ document[1].elements[i].x = placements[i].x
              /\ document[1].elements[i].y = placements[i].y
              /\ document[1].elements[i].avatar_size = avatar_size

\* C10 witness: a completed run over at least two different entities.
C10_Witness ==
    /\ pc = "done" /\ Len(all_contributors) >= 2
    /\ all_contributors[1] # all_contributors[2]
    /\ Len(document[1].elements) = Len(all_contributors)

\* C11: the declared width is 2 + (avatar_size + 2) * num_per_row in every
\* run that writes a document, whatever the number of entities: also with
\* fewer entities than num_per_row and with none.
C11_Width ==
    \A i \in 1..Len(document) :
        document[i].image_width = 2 + (avatar_size + 2) * num_per_row

\* C11 witness: a document was written for fewer entities than one row holds.
C11_Witness ==
    /\ pc = "done" /\ Len(document) = 1
    /\ Len(document[1].elements) = 1 /\ num_per_row = 3
    /\ avatar_size = DefaultAvatarSize
    /\ document[1].image_width = 152

\* C12: runs of main() against the same remote directory with the same
\* arguments write identical documents: every run starts from the same cursor
\* and an empty accumulator, and nothing of an earlier run shows in a later
\* document.
C12_Idempotent ==
    /\ \A i, j \in 1..Len(document) : document[i] = document[j]
    /\ pc = "fetch" =>
          /\ <<x, y, ncol, nrow>> = <<InitX, InitY, InitCol, InitRow>>
          /\ elements = <<>>

\* C12 witness: two completed runs over several rows of entities.
C12_Witness ==
    /\ pc = "done" /\ Len(document) = 2
    /\ Len(document[2].elements) >= 4 /\ num_per_row = 3
    /\ document[1] = document[2]

\* C13 as stated: for n >= 1 entities the declared height fits the placed
\* avatars exactly with a border: it is y_last + avatar_size + 2, y_last being
\* the y of the last placed entity.
C13_HeightFits ==
    (pc = "done" /\ Len(placements) >= 1) =>
        document[1].image_height =
            placements[Len(placements)].y + avatar_size + 2

\* The part of C13 the code keeps: the height fits exactly when the last row
\* is partially filled, and is one row too high when the last row is full.
HeightFitsPartialRow ==
    (pc = "done" /\ Len(placements) >= 1) =>
        document[1].image_height =
            placements[Len(placements)].y + avatar_size + 2
            + (IF Len(placements) % num_per_row = 0 THEN avatar_size + 2 ELSE 0)

\* C14: when an avatar cannot be downloaded within its attempts or cannot be
\* decoded, the run ends there: the entity is not skipped, nothing more is
\* downloaded, placed or composed, and no document is written, though the
\* fragments of the earlier entities were accumulated.
C14_EntityFailureAborts ==
    /\ error \in {"AssetUnavailable", "DecodeError"} =>
          /\ pc = "aborted"
          /\ document = <<>>
          /\ idx <= Len(all_contributors)
          /\ Len(elements) = idx - 1
          /\ ~ENABLED Next
    /\ pc \in {"loop", "done"} =>
          /\ Len(elements) = idx - 1
          /\ \A i \in 1..Len(elements) :
                elements[i].html_url = HtmlUrl(all_contributors[i])

\* C14 witness: the download of the 3rd of 4 entities has failed 3 times; two
\* fragments were accumulated and nothing was written.
C14_Witness ==
    /\ error = "AssetUnavailable" /\ pc = "aborted"
    /\ idx = 3 /\ Len(all_contributors) = 4 /\ Len(elements) = 2
    /\ document = <<>>

\* C15: every placement lies inside the declared canvas with a border of 2 on
\* every side (2 <= x, x + avatar_size + 2 <= width, 2 <= y, and
\* y + avatar_size + 2 <= the final height), and no two entities get the
\* same (x, y).
C15_InsideCanvas ==
    /\ \A k \in 1..Len(placements) :
          /\ 2 <= placements[k].x
          /\ placements[k].x + avatar_size + 2
                <= 2 + (avatar_size + 2) * num_per_row
          /\ 2 <= placements[k].y
          /\ elements[k].x = placements[k].x
          /\ elements[k].y = placements[k].y
    /\ \A k, l \in 1..Len(placements) :
          k # l => <<placements[k].x, placements[k].y>>
                     # <<placements[l].x, placements[l].y>>
    /\ pc = "done" =>
          \A k \in 1..Len(document[1].elements) :
              /\ document[1].elements[k].x + avatar_size + 2
                    <= document[1].image_width
              /\ document[1].elements[k].y + avatar_size + 2
                    <= document[1].image_height

\* C15 witness: a document of 7 placements of size 0 in rows of 3.
C15_Witness ==
    /\ pc = "done" /\ Len(document[1].elements) = 7
    /\ avatar_size = 0 /\ num_per_row = 3
    /\ document[1].elements[3].x + avatar_size + 2 = document[1].image_width

\* C16: when an attempt of the fetch fails after pages were read and a later
\* attempt succeeds, the returned listing holds only what the successful
\* attempt read: it equals the listing of a fetch without failure, the pages
\* in link order, each once.
C16_RetryKeepsNothing ==
    (pc = "returned" /\ ~bad_status) =>
        /\ all_contributors = Flatten(pages)
        /\ requests = Len(pages)

\* C16 witness: page 2 raised after a non-empty page 1 was read, and a later
\* attempt returned.
C16_Witness ==
    /\ pc = "returned" /\ ~bad_status
    /\ Len(pages) = 2 /\ pages[1] # <<>> /\ page_failures[2] > 0
    /\ attempt > 1
    /\ all_contributors = pages[1] \o pages[2]

\* C17: after crop_to_circle the alpha of every pixel is the minimum of the
\* mask value and the alpha it had: it never exceeds the alpha it had, it is
\* 0 where the mask is 0, it is unchanged where the mask is 255, and the
\* colour channels are as they were.
C17_AlphaMin ==
    pc = "cropped" =>
        /\ DOMAIN avatar_img = DOMAIN img_before
        /\ \A p \in DOMAIN img_before :
              /\ avatar_img[p].a \in {alpha_mask[p], img_before[p].a}
              /\ avatar_img[p].a <= alpha_mask[p]
              /\ avatar_img[p].a <= img_before[p].a
              /\ alpha_mask[p] = 0 => avatar_img[p].a = 0
              /\ img_before[p].a = 0 => avatar_img[p].a = 0
              /\ alpha_mask[p] = 255 => avatar_img[p].a = img_before[p].a
              /\ avatar_img[p].rgb = img_before[p].rgb

\* C17 witness: one pixel was cut down to the mask, another kept its own
\* lower alpha under a fully opaque mask.
C17_Witness ==
    /\ pc = "cropped" /\ Len(avatar_img) = 2
    /\ img_before[1].a = 255 /\ alpha_mask[1] = 128 /\ avatar_img[1].a = 128
    /\ img_before[2].a = 128 /\ alpha_mask[2] = 255 /\ avatar_img[2].a = 128

\* the run is over
Ended == pc \in {"done", "aborted"}

\* what holds of the attempts and of the written document at every moment
C18_Safe ==
    /\ attempt <= FetchAttempts
    /\ dl_attempt <= ImageAttempts
    /\ Len(document) <= 1
    /\ pc = "done" <=> Len(document) = 1
    /\ pc = "done" =>
          /\ error = "none"
          /\ idx = Len(all_contributors) + 1
          /\ Len(document[1].elements) = Len(all_contributors)
    /\ pc = "aborted" <=> error # "none"

\* C18: every run ends, under any pattern of request failures: either with
\* the document written exactly once, after the last entity was composed, or
\* aborted with an error and nothing written; no retried call makes more than
\* 3 attempts.
C18_Terminates == []C18_Safe /\ <>[]Ended

\* C18 witness: a run has ended with its document written although a download
\* needed all 3 attempts.
C18_Witness ==
    /\ pc = "done" /\ Len(document) = 1
    /\ dl_used = ImageAttempts /\ Len(document[1].elements) >= 2
====
